---- MODULE Spec2Model ----
(***************************************************************************)
(* Model of the portfolio scene's two stateful parts:                      *)
(*   - PopupStateManager (src/unnamed/part_000, lines 17-134): the popup's *)
(*     explicit state machine, its CSS classes and its transition timer;   *)
(*   - CameraControls (src/src/js/camera-controls.js): input handlers that *)
(*     move target angles / zoom and the per-frame smoothing update;       *)
(*   - the page around them: initPortfolio (src/unnamed/part_000, lines    *)
(*     624-647) and the navigation HUD and keys of src/script.js.          *)
(***************************************************************************)
EXTENDS Integers, Sequences, FiniteSets, TLC

\* ------------------------------------------------------------------ bounds
\* Number of open()/close()/forceClose() calls explored on the popup.
MaxCalls == 5

\* Number of camera events, frames and clicks explored on the controls.
MaxSteps == 4

\* ------------------------------------------------------- popup: constants
\* PopupStateManager.STATES
CLOSED == "closed"
OPENING == "opening"
OPEN == "open"
CLOSING == "closing"
STATES == {CLOSED, OPENING, OPEN, CLOSING}

\* pendingTransition = null (setTimeout ids are positive integers)
NULL == 0

\* Positions the callers pass to open(): showPopup(position)
Positions == {"center", "top-left", "top-right", "bottom"}

PopupClasses == {"active", "fading", "interactive"}

VARIABLES
    \* --- PopupStateManager fields
    state,              \* this.state
    classes,            \* this.element.classList
    pendingTransition,  \* this.pendingTransition: a timer id, or NULL
    \* --- browser environment of the popup
    timers,             \* scheduled setTimeout callbacks not yet fired or cleared
    nextTimerId,        \* the id the next setTimeout returns
    popupPosition,      \* position last handed to onPositionNeeded
    \* --- observation of the popup
    log,                \* callbacks invoked by the last operation, in order
    popupOp,            \* the last operation that ran on the popup
    calls,              \* the last two calls made on the manager
    ncalls              \* number of calls made on the manager

popupVars == <<state, classes, pendingTransition, timers, nextTimerId,
               popupPosition, log, popupOp, calls, ncalls>>

VARIABLES
    \* --- CameraControls fields
    enabled, theta, phi, targetTheta, targetPhi,
    isDragging, previousMouse, previousTouch, isPinching, previousPinchDistance,
    targetFov,
    gyroEnabled, gyroCalibrated, gyroAlphaOffset, gyroBetaOffset,
    \* --- the camera and the page
    cameraFov,             \* this.camera.fov
    cameraPosition,        \* this.camera.position
    lookTarget,            \* the point last passed to this.camera.lookAt
    isMobile,              \* this.isMobile: the gyro button exists
    orientationApi,        \* what the browser offers for DeviceOrientationEvent
    permissionsPending,    \* requestPermission() promises not yet settled
    orientationListeners,  \* deviceorientation listeners registered on window
    toggleInstalled,       \* gyroButton.onclick is the toggle handler
    buttonHidden,          \* gyroButton.style.display = 'none'
    gyroLabel,             \* text of the gyro button
    gyroFeedback,          \* last message given to showGyroFeedback
    unhandled,             \* an exception escaped a handler of the page
    gyroAtClick,           \* <<gyroEnabled>> as it was before the last click
                           \* made after enableGyroscope had run, else <<>>
    \* --- observation of the controls
    camOp,                 \* the last handler that ran
    camArg,                \* event.deltaY of a wheel event, the answer of a
                           \* settled permission request, event.touches of
                           \* a touchmove, <<alpha, beta>> of an orientation
                           \* event, else 0
    steps,                 \* number of events, frames and clicks so far
    dragStartX,            \* clientX of the mousedown that started the drag
    dragStartTheta,        \* targetTheta at that mousedown
    dragOnlyMouse          \* no other handler wrote targetTheta since then

VARIABLES
    \* --- the document and window
    webglSupported,        \* window.WebGLRenderingContext exists
    pageLoaded,            \* initPortfolio() has run
    sceneCreated,          \* window.portfolioScene holds a PortfolioScene
    bodyFallback,          \* document.body has the class 'fallback-2d'
    navActive,             \* data-direction of the nav button with 'active'
    terminalFeedback       \* last command given to addTerminalFeedback

docVars == <<webglSupported, pageLoaded, sceneCreated, bodyFallback, navActive,
             terminalFeedback>>

rigVars == <<enabled, theta, phi, targetTheta, targetPhi, targetFov, cameraFov,
             cameraPosition, lookTarget>>
pointerVars == <<isDragging, previousMouse, previousTouch, isPinching,
                 previousPinchDistance>>
gyroVars == <<gyroEnabled, gyroCalibrated, gyroAlphaOffset, gyroBetaOffset>>
pageVars == <<isMobile, orientationApi, permissionsPending, orientationListeners,
              toggleInstalled, buttonHidden, gyroLabel, gyroFeedback, unhandled,
              gyroAtClick>>
dragObs == <<dragStartX, dragStartTheta, dragOnlyMouse>>
camVars == <<rigVars, pointerVars, gyroVars, pageVars, dragObs, camOp, camArg,
            steps, docVars>>

\* ------------------------------------------------------ popup: operations

\* isVisible()
isVisible == state = OPENING \/ state = OPEN

\* isInteractive()
isInteractive == state = OPEN

\* A cancelPendingTransition() that forgets clearTimeout
TimersAfterCancel_KeepsAll == timers

\* cancelPendingTransition(): clearTimeout(this.pendingTransition)
TimersAfterCancel ==
    IF pendingTransition # NULL
    THEN {t \in timers : t.id # pendingTransition}
    ELSE timers

\* setTimeout(callback, transitionDuration): the callback is scheduled
Schedule(live, kind) == live \cup {[id |-> nextTimerId, kind |-> kind]}

\* onPositionNeeded(position), observed together with the element's visibility
PositionNeeded(position, cls) ==
    [cb |-> "onPositionNeeded", arg |-> position, old |-> "-",
     shown |-> "active" \in cls]

\* onStateChange(newState, oldState)
StateChange(new, old, cls) ==
    [cb |-> "onStateChange", arg |-> new, old |-> old,
     shown |-> "active" \in cls]

Called(name) ==
    /\ ncalls < MaxCalls
    /\ ncalls' = ncalls + 1
    /\ calls' = <<calls[2], name>>
    /\ popupOp' = name
    /\ UNCHANGED camVars

\* An open() that forgets to remove 'fading' when restarting from CLOSING
ClassesAfterOpen_KeepsFading(st, cls) == (cls \cup {"active"}) \ {"interactive"}

\* open(): classList changes on the way to OPENING
ClassesAfterOpen(st, cls) ==
    ((IF st = CLOSING THEN cls \ {"fading"} ELSE cls) \cup {"active"})
        \ {"interactive"}

\* open(): the state entered when the popup is not already OPEN
StateAfterOpen == OPENING

\* An open() that shows the element before asking for its position
OpenCallbacks_ShownFirst(position, st, cls) ==
    <<StateChange(StateAfterOpen, st, ClassesAfterOpen(st, cls)),
      PositionNeeded(position, ClassesAfterOpen(st, cls))>>

\* open(): the callbacks on the way to OPENING, in order: onPositionNeeded
\* runs after 'fading' was removed and before 'active' is added,
\* onStateChange after the class changes
OpenCallbacks(position, st, cls) ==
    <<PositionNeeded(position, IF st = CLOSING THEN cls \ {"fading"} ELSE cls),
      StateChange(StateAfterOpen, st, ClassesAfterOpen(st, cls))>>

\* An open() without its shortcut for a popup that is already OPEN
OpenOnlyRepositions_Never(st) == FALSE

\* open(): if (this.state === OPEN) { onPositionNeeded(position); return }
OpenOnlyRepositions(st) == st = OPEN

\* open(position = "center")
Open(position) ==
    /\ Called("open")
    /\ popupPosition' = position
    /\ IF OpenOnlyRepositions(state)
       THEN \* already open: just reposition
            /\ log' = <<PositionNeeded(position, classes)>>
            /\ timers' = TimersAfterCancel
            /\ pendingTransition' = NULL
            /\ UNCHANGED <<state, classes, nextTimerId>>
       ELSE /\ state' = StateAfterOpen
            /\ classes' = ClassesAfterOpen(state, classes)
            /\ log' = OpenCallbacks(position, state, classes)
            /\ timers' = Schedule(TimersAfterCancel, "open")
            /\ pendingTransition' = nextTimerId
            /\ nextTimerId' = nextTimerId + 1

\* A close() that forgets to remove 'interactive'
ClassesAfterClose_KeepsInteractive(cls) == cls \cup {"fading"}

\* close(): classList changes on the way to CLOSING
ClassesAfterClose(cls) == (cls \ {"interactive"}) \cup {"fading"}

\* A close() that skips the fade-out and closes at once
StateAfterClose_Immediate == CLOSED

\* close(): the state entered from OPENING or OPEN
StateAfterClose == CLOSING

\* close(): if (this.state === CLOSED || this.state === CLOSING) return
CloseReturnsEarly(st) == st = CLOSED \/ st = CLOSING

\* close()
Close ==
    /\ Called("close")
    /\ IF CloseReturnsEarly(state)
       THEN \* early return, after cancelPendingTransition()
            /\ timers' = TimersAfterCancel
            /\ pendingTransition' = NULL
            /\ log' = <<>>
            /\ UNCHANGED <<state, classes, nextTimerId, popupPosition>>
       ELSE /\ state' = StateAfterClose
            /\ classes' = ClassesAfterClose(classes)
            /\ log' = <<StateChange(StateAfterClose, state, classes')>>
            /\ timers' = Schedule(TimersAfterCancel, "close")
            /\ pendingTransition' = nextTimerId
            /\ nextTimerId' = nextTimerId + 1
            /\ UNCHANGED popupPosition

\* A forceClose() that leaves the element visible
ClassesAfterForceClose_KeepsActive(cls) == cls \ {"fading", "interactive"}

\* forceClose(): classList.remove("active", "fading", "interactive")
ClassesAfterForceClose(cls) == cls \ {"active", "fading", "interactive"}

\* forceClose()
ForceClose ==
    /\ Called("forceClose")
    /\ timers' = TimersAfterCancel
    /\ pendingTransition' = NULL
    /\ state' = CLOSED
    /\ classes' = ClassesAfterForceClose(classes)
    /\ log' = <<StateChange(CLOSED, "null", classes')>>
    /\ UNCHANGED <<nextTimerId, popupPosition>>

\* The state in which open()'s timer callback takes effect
OpenTimerApplies(st) == st = OPENING

\* The setTimeout callback of open(): become fully OPEN
OpenTimerFires(t) ==
    /\ t.kind = "open"
    /\ timers' = timers \ {t}
    /\ pendingTransition' = NULL
    /\ popupOp' = "openTimer"
    /\ IF OpenTimerApplies(state)
       THEN /\ state' = OPEN
            /\ classes' = classes \cup {"interactive"}
            /\ log' = <<StateChange(OPEN, state, classes')>>
       ELSE /\ log' = <<>>
            /\ UNCHANGED <<state, classes>>
    /\ UNCHANGED <<nextTimerId, popupPosition, calls, ncalls, camVars>>

\* A close timer that leaves 'fading' on the element
ClassesAfterCloseTimer_KeepsFading(cls) == cls \ {"active"}

\* close()'s timer callback: classList once fully CLOSED
ClassesAfterCloseTimer(cls) == cls \ {"active", "fading"}

\* The setTimeout callback of close(): become fully CLOSED
CloseTimerFires(t) ==
    /\ t.kind = "close"
    /\ timers' = timers \ {t}
    /\ pendingTransition' = NULL
    /\ popupOp' = "closeTimer"
    /\ IF state = CLOSING
       THEN /\ state' = CLOSED
            /\ classes' = ClassesAfterCloseTimer(classes)
            /\ log' = <<StateChange(CLOSED, state, classes')>>
       ELSE /\ log' = <<>>
            /\ UNCHANGED <<state, classes>>
    /\ UNCHANGED <<nextTimerId, popupPosition, calls, ncalls, camVars>>

\* The browser runs a scheduled callback once its delay has elapsed
TimerFire == \E t \in timers : OpenTimerFires(t) \/ CloseTimerFires(t)

PopupInit ==
    /\ state = CLOSED
    /\ classes = {}
    /\ pendingTransition = NULL
    /\ timers = {}
    /\ nextTimerId = 1
    /\ popupPosition = "center"
    /\ log = <<>>
    /\ popupOp = "none"
    /\ calls = <<"none", "none">>
    /\ ncalls = 0

PopupNext ==
    \/ \E position \in Positions : Open(position)
    \/ Close
    \/ ForceClose
    \/ TimerFire

\* ================================================================ camera
\* Numbers are kept in fixed point and every arithmetic result is rounded to
\* the nearest representable value, as the engine's floating point does on
\* its (much finer) grid:
\*   angles  in 1/1000 rad,   field of view and pinch zoom in 1/20 degree,
\*   pointer coordinates and pinch distances in pixels.

\* n / d rounded to the nearest integer (ties away from zero)
RoundDiv(n, d) ==
    IF n >= 0 THEN (2 * n + d) \div (2 * d)
              ELSE -((2 * (-n) + d) \div (2 * d))

\* The angle n/d rad
Rad(n, d) == RoundDiv(n * 1000, d)

\* The field of view of n degrees
Deg(n) == n * 20

\* Math.PI
PI == Rad(31416, 10000)

\* THREE.MathUtils.degToRad(degrees)
degToRad(degrees) == RoundDiv(degrees * PI, 180)

Max(a, b) == IF a >= b THEN a ELSE b
Min(a, b) == IF a <= b THEN a ELSE b
Abs(a) == IF a >= 0 THEN a ELSE -a

\* Math.sqrt on integers, rounded down; the root is looked for in lo..hi
RECURSIVE SqrtSearch(_, _, _)
SqrtSearch(n, lo, hi) ==
    IF lo >= hi THEN lo
    ELSE LET mid == (lo + hi + 1) \div 2
         IN IF mid * mid <= n THEN SqrtSearch(n, mid, hi)
                              ELSE SqrtSearch(n, lo, mid - 1)
Sqrt(n, hi) == SqrtSearch(n, 0, hi)

\* constructor: constraints, smoothing and zoom settings
minPhi == RoundDiv(PI, 6)
maxPhi == RoundDiv(PI * 5, 6)
rotationSpeed == Rad(3, 1000)
baseFov == Deg(60)
minFov == Deg(30)
maxFov == Deg(90)

\* x * dampingFactor (0.08)
Damped(x) == RoundDiv(x * 8, 100)

\* Math.max(this.minPhi, Math.min(this.maxPhi, phi))
ClampPhi(p) == Max(minPhi, Min(maxPhi, p))

\* Math.max(this.minFov, Math.min(this.maxFov, fov))
ClampFov(f) == Max(minFov, Min(maxFov, f))

\* ------------------------------------------------------- camera: inputs
\* clientX / clientY of mouse events
MousePoints == {[x |-> 0, y |-> 0], [x |-> 2, y |-> 400]}

\* event.touches of touch events: one finger, or two fingers
OneFinger == {<<[x |-> 0, y |-> 0]>>, <<[x |-> 100, y |-> 300]>>}
TwoFingers == {<<[x |-> 0, y |-> 0], [x |-> 30, y |-> 40]>>,
               <<[x |-> 0, y |-> 0], [x |-> 600, y |-> 800]>>}
Touches == OneFinger \cup TwoFingers

\* event.deltaY of wheel events
WheelDeltas == {-100, 1000}

\* event.key of keydown events ("x": any other key)
Keys == {"ArrowLeft", "d", "w", "ArrowDown", "x"}

\* <<event.alpha, event.beta>> of orientation events: alpha in 0..360 and
\* beta in -180..180, each <<v>>, or <<>> for null
Readings == {<< <<>>, <<50>> >>, << <<0>>, <<>> >>, << <<0>>, <<180>> >>,
             << <<359>>, <<-180>> >>, << <<90>>, <<50>> >>}

\* Feature detection in requestGyroPermission
OrientationApis == {"permission", "plain", "absent"}

\* One more event, frame or click is handled
Handled(name, arg) ==
    /\ steps < MaxSteps
    /\ steps' = steps + 1
    /\ camOp' = name
    /\ camArg' = arg
    /\ UNCHANGED <<popupVars, docVars>>

\* targetTheta was written by something other than a mouse drag
Disturb == dragOnlyMouse' = FALSE /\ UNCHANGED <<dragStartX, dragStartTheta>>

\* playEntryAnimation(): this.controls.enabled = true
EnableControls ==
    /\ Handled("enable", 0)
    /\ ~enabled
    /\ enabled' = TRUE
    /\ UNCHANGED <<theta, phi, targetTheta, targetPhi, targetFov, cameraFov, cameraPosition,
                   lookTarget,
                   pointerVars, gyroVars, pageVars, dragObs>>

\* ---------------------------------------------------------------- mouse

\* An onMouseWheel without its enabled check
WheelEnabled_Always == TRUE

\* onMouseWheel: if (!this.enabled) return
WheelEnabled == enabled

\* An onMouseWheel that forgets to clamp
FovAfterWheel_Unclamped(deltaY) == targetFov + RoundDiv(deltaY * 5 * 20, 100)

\* onMouseWheel: targetFov after the event
FovAfterWheel(deltaY) == ClampFov(targetFov + RoundDiv(deltaY * 5 * 20, 100))

\* onMouseWheel(event)
OnMouseWheel(deltaY) ==
    /\ Handled("wheel", deltaY)
    /\ targetFov' = IF WheelEnabled THEN FovAfterWheel(deltaY) ELSE targetFov
    /\ UNCHANGED <<enabled, theta, phi, targetTheta, targetPhi, cameraFov, cameraPosition,
                   lookTarget,
                   pointerVars, gyroVars, pageVars, dragObs>>

\* onMouseDown(event); interactive: findInteractiveElementAtPoint found an
\* element, or isInteractiveElement(event.target)
OnMouseDown(p, interactive) ==
    /\ Handled("mousedown", 0)
    /\ IF enabled /\ ~interactive
       THEN /\ isDragging' = TRUE
            /\ previousMouse' = p
            /\ dragStartX' = p.x
            /\ dragStartTheta' = targetTheta
            /\ dragOnlyMouse' = TRUE
       ELSE UNCHANGED <<isDragging, previousMouse, dragObs>>
    /\ UNCHANGED <<rigVars, previousTouch, isPinching, previousPinchDistance,
                   gyroVars, pageVars>>

\* An onMouseMove that forgets to store the pointer position
MouseAfterMove_Stale(p) == previousMouse

\* onMouseMove: previousMouse after a handled move
MouseAfterMove(p) == p

\* onMouseMove: targetTheta after a handled move
ThetaAfterMove(p) == targetTheta - (p.x - previousMouse.x) * rotationSpeed

\* An onMouseMove that forgets to clamp the vertical rotation
PhiAfterMove_Unclamped(p) == targetPhi - (p.y - previousMouse.y) * rotationSpeed

\* onMouseMove: targetPhi after a handled move
PhiAfterMove(p) == ClampPhi(targetPhi - (p.y - previousMouse.y) * rotationSpeed)

\* onMouseMove(event)
OnMouseMove(p) ==
    /\ Handled("mousemove", 0)
    /\ IF enabled /\ isDragging
       THEN /\ targetTheta' = ThetaAfterMove(p)
            /\ targetPhi' = PhiAfterMove(p)
            /\ previousMouse' = MouseAfterMove(p)
       ELSE UNCHANGED <<targetTheta, targetPhi, previousMouse>>
    /\ UNCHANGED <<enabled, theta, phi, targetFov, cameraFov, cameraPosition,
                   lookTarget, isDragging,
                   previousTouch, isPinching, previousPinchDistance,
                   gyroVars, pageVars, dragObs>>

\* onMouseUp(event), also the mouseleave listener
OnMouseUp ==
    /\ Handled("mouseup", 0)
    /\ isDragging' = FALSE
    /\ UNCHANGED <<rigVars, previousMouse, previousTouch, isPinching,
                   previousPinchDistance, gyroVars, pageVars, dragObs>>

\* ---------------------------------------------------------------- touch

\* getPinchDistance(touches)
getPinchDistance(t) ==
    LET dx == t[1].x - t[2].x
        dy == t[1].y - t[2].y
    IN Sqrt(dx * dx + dy * dy, Abs(dx) + Abs(dy))

\* onTouchStart(event); hit: "atPoint" when findInteractiveElementAtPoint finds
\* an element under a single touch, "target" when isInteractiveElement(target)
OnTouchStart(t, hit) ==
    /\ Handled("touchstart", 0)
    /\ IF ~enabled \/ (Len(t) = 1 /\ hit = "atPoint") \/ hit = "target"
       THEN UNCHANGED <<isPinching, previousPinchDistance, previousTouch>>
       ELSE IF Len(t) = 2
       THEN /\ isPinching' = TRUE
            /\ previousPinchDistance' = getPinchDistance(t)
            /\ UNCHANGED previousTouch
       ELSE IF Len(t) = 1 /\ ~gyroEnabled
       THEN /\ previousTouch' = t[1]
            /\ UNCHANGED <<isPinching, previousPinchDistance>>
       ELSE UNCHANGED <<isPinching, previousPinchDistance, previousTouch>>
    /\ UNCHANGED <<rigVars, isDragging, previousMouse, gyroVars, pageVars, dragObs>>

\* onTouchMove: targetFov after a pinch move; delta * zoomSpeed (0.5) * 0.1
FovAfterPinch(currentDistance) ==
    ClampFov(targetFov
             - RoundDiv((currentDistance - previousPinchDistance) * 5 * 20, 100))

\* onTouchMove: a drag delta scaled by rotationSpeed * 1.5
TouchScaled(delta) == RoundDiv(delta * rotationSpeed * 15, 10)

\* An onTouchMove that drags with one finger whatever the gyroscope's state
TouchDragBlocked_IgnoresGyro(t) == Len(t) # 1

\* onTouchMove: if (this.gyroEnabled) return;
\* if (event.touches.length !== 1) return
TouchDragBlocked(t) == gyroEnabled \/ Len(t) # 1

\* onTouchMove(event)
OnTouchMove(t) ==
    /\ Handled("touchmove", t)
    /\ IF ~enabled
       THEN UNCHANGED <<targetTheta, targetPhi, targetFov, previousTouch,
                        previousPinchDistance, dragObs>>
       ELSE IF Len(t) = 2 /\ isPinching
       THEN /\ targetFov' = FovAfterPinch(getPinchDistance(t))
            /\ previousPinchDistance' = getPinchDistance(t)
            /\ UNCHANGED <<targetTheta, targetPhi, previousTouch, dragObs>>
       ELSE IF TouchDragBlocked(t)
       THEN UNCHANGED <<targetTheta, targetPhi, targetFov, previousTouch,
                        previousPinchDistance, dragObs>>
       ELSE /\ targetTheta' = targetTheta - TouchScaled(t[1].x - previousTouch.x)
            /\ targetPhi' = ClampPhi(targetPhi - TouchScaled(t[1].y - previousTouch.y))
            /\ previousTouch' = t[1]
            /\ Disturb
            /\ UNCHANGED <<targetFov, previousPinchDistance>>
    /\ UNCHANGED <<enabled, theta, phi, cameraFov, cameraPosition,
                   lookTarget, isDragging, previousMouse,
                   isPinching, gyroVars, pageVars>>

\* onTouchEnd(event); remaining: event.touches.length
OnTouchEnd(remaining) ==
    /\ Handled("touchend", 0)
    /\ isPinching' = IF remaining < 2 THEN FALSE ELSE isPinching
    /\ UNCHANGED <<rigVars, isDragging, previousMouse, previousTouch,
                   previousPinchDistance, gyroVars, pageVars, dragObs>>

\* ------------------------------------------------------------- keyboard

\* onKeyDown: rotateAmount = 0.1
rotateAmount == Rad(1, 10)

\* onKeyDown(event)
OnKeyDown(key) ==
    /\ Handled("keydown", 0)
    /\ IF ~enabled
       THEN UNCHANGED <<targetTheta, targetPhi, dragObs>>
       ELSE IF key \in {"ArrowLeft", "a"}
       THEN targetTheta' = targetTheta + rotateAmount
            /\ Disturb /\ UNCHANGED targetPhi
       ELSE IF key \in {"ArrowRight", "d"}
       THEN targetTheta' = targetTheta - rotateAmount
            /\ Disturb /\ UNCHANGED targetPhi
       ELSE IF key \in {"ArrowUp", "w"}
       THEN targetPhi' = Max(minPhi, targetPhi - rotateAmount)
            /\ UNCHANGED <<targetTheta, dragObs>>
       ELSE IF key \in {"ArrowDown", "s"}
       THEN targetPhi' = Min(maxPhi, targetPhi + rotateAmount)
            /\ UNCHANGED <<targetTheta, dragObs>>
       ELSE UNCHANGED <<targetTheta, targetPhi, dragObs>>
    /\ UNCHANGED <<enabled, theta, phi, targetFov, cameraFov, cameraPosition,
                   lookTarget, pointerVars,
                   gyroVars, pageVars>>

\* ------------------------------------------------------------ gyroscope

\* The gyro fields and the page as one value, for composing handlers
GyroNow ==
    [gyroEnabled |-> gyroEnabled, listeners |-> orientationListeners,
     installed |-> toggleInstalled, hidden |-> buttonHidden,
     label |-> gyroLabel, feedback |-> gyroFeedback,
     pending |-> permissionsPending, unhandled |-> unhandled,
     atClick |-> gyroAtClick]

\* enableGyroscope()
enableGyroscope(g) ==
    [g EXCEPT !.listeners = @ + 1, !.gyroEnabled = TRUE, !.label = "Tilt ON",
              !.feedback = "Tilt enabled", !.installed = TRUE]

\* requestGyroPermission(), up to its await
requestGyroPermission(g) ==
    IF orientationApi = "permission" THEN [g EXCEPT !.pending = @ + 1]
    ELSE IF orientationApi = "plain" THEN enableGyroscope(g)
    ELSE [g EXCEPT !.feedback = "Not supported", !.hidden = TRUE]

\* gyroButton.onclick, once enableGyroscope has installed it
toggleGyro(g) ==
    [g EXCEPT !.gyroEnabled = ~@,
              !.label = IF g.gyroEnabled THEN "Tilt OFF" ELSE "Tilt ON",
              !.feedback = IF g.gyroEnabled THEN "Tilt OFF" ELSE "Tilt ON"]

SetGyro(g) ==
    /\ gyroEnabled' = g.gyroEnabled
    /\ orientationListeners' = g.listeners
    /\ toggleInstalled' = g.installed
    /\ buttonHidden' = g.hidden
    /\ gyroLabel' = g.label
    /\ gyroFeedback' = g.feedback
    /\ permissionsPending' = g.pending
    /\ unhandled' = g.unhandled
    /\ gyroAtClick' = g.atClick
    /\ UNCHANGED <<isMobile, orientationApi, gyroCalibrated, gyroAlphaOffset,
                   gyroBetaOffset>>

\* A click on the gyro button: the click listener added by createGyroButton
\* runs first, then the onclick handler if one was installed before the click
GyroButtonClick ==
    /\ Handled("gyroClick", 0)
    /\ isMobile /\ ~buttonHidden
    /\ LET clicked == [GyroNow EXCEPT !.atClick = IF toggleInstalled
                                                  THEN <<gyroEnabled>> ELSE @]
           afterListener == requestGyroPermission(clicked)
       IN SetGyro(IF toggleInstalled THEN toggleGyro(afterListener)
                                     ELSE afterListener)
    /\ UNCHANGED <<rigVars, pointerVars, dragObs>>

\* The answers of DeviceOrientationEvent.requestPermission(): it resolves to
\* 'granted' or 'denied', or it rejects
Outcomes == {"granted", "denied", "error"}

\* requestGyroPermission: the await sits inside try { } catch (error) { }
RejectionCaught == TRUE

\* A requestGyroPermission that enables the gyroscope whatever the answer
resumeGyroPermission_IgnoresAnswer(g, outcome) == enableGyroscope(g)

\* requestGyroPermission(), from its await on: 'Error: ' + error.message is
\* kept as "Error"
resumeGyroPermission(g, outcome) ==
    IF outcome = "granted" THEN enableGyroscope(g)
    ELSE IF outcome = "denied" THEN [g EXCEPT !.feedback = "Permission denied"]
    ELSE IF RejectionCaught THEN [g EXCEPT !.feedback = "Error"]
    ELSE [g EXCEPT !.unhandled = TRUE]

\* DeviceOrientationEvent.requestPermission() settles; requestGyroPermission
\* resumes after its await
PermissionSettles(outcome) ==
    /\ Handled("permission", outcome)
    /\ permissionsPending > 0
    /\ SetGyro(resumeGyroPermission([GyroNow EXCEPT !.pending = @ - 1], outcome))
    /\ UNCHANGED <<rigVars, pointerVars, dragObs>>

\* Math.PI / 2
halfPi == RoundDiv(PI, 2)

\* handleOrientation: neutralBeta = 50
neutralBeta == 50

\* handleOrientation: targetPhi for a reading of beta
PhiFromBeta(beta) ==
    ClampPhi(halfPi - RoundDiv(degToRad(beta - neutralBeta) * 5, 10))

\* A handleOrientation that recalibrates on every reading
CalibratedOffset_EveryReading(current, reading) == reading

\* handleOrientation: if (!this.gyroCalibrated) the offset becomes the reading
CalibratedOffset(current, reading) ==
    IF gyroCalibrated THEN current ELSE reading

\* handleOrientation(event), run by the registered deviceorientation listeners
\* (every listener computes the same values from the same event)
HandleOrientation(alpha, beta) ==
    /\ Handled("orientation", <<alpha, beta>>)
    /\ orientationListeners > 0
    /\ IF ~enabled \/ ~gyroEnabled \/ alpha = <<>> \/ beta = <<>>
       THEN UNCHANGED <<targetTheta, targetPhi, gyroVars, dragObs>>
       ELSE /\ gyroCalibrated' = TRUE
            /\ gyroAlphaOffset' = CalibratedOffset(gyroAlphaOffset, alpha[1])
            /\ gyroBetaOffset' = CalibratedOffset(gyroBetaOffset, beta[1])
            /\ targetTheta' = degToRad(alpha[1] - gyroAlphaOffset')
            /\ targetPhi' = PhiFromBeta(beta[1])
            /\ Disturb
            /\ UNCHANGED gyroEnabled
    /\ UNCHANGED <<enabled, theta, phi, targetFov, cameraFov, cameraPosition,
                   lookTarget, pointerVars, pageVars>>

\* ---------------------------------------------------------- update loop

\* Math.sin on 0 .. PI/2, by its series up to the seventh power
SinQuarter(x) ==
    LET x2 == RoundDiv(x * x, 1000)
        x3 == RoundDiv(x2 * x, 1000)
        x5 == RoundDiv(x3 * x2, 1000)
        x7 == RoundDiv(x5 * x2, 1000)
    IN x - RoundDiv(x3, 6) + RoundDiv(x5, 120) - RoundDiv(x7, 5040)

\* Math.sin(x), in thousandths
Sin(x) ==
    LET r == x % (2 * PI)
    IN IF r <= halfPi THEN SinQuarter(r)
       ELSE IF r <= PI THEN SinQuarter(PI - r)
       ELSE IF r <= PI + halfPi THEN -SinQuarter(r - PI)
       ELSE -SinQuarter(2 * PI - r)

\* Math.cos(x), in thousandths
Cos(x) == Sin(x + halfPi)

\* updateCameraRotation: lookDistance = 100
lookDistance == 100

\* A look-at point with the yaw's sine and cosine exchanged
updateCameraRotation_Swapped(th, ph) ==
    <<RoundDiv(lookDistance * Sin(ph) * Cos(th), 1000),
      lookDistance * Cos(ph),
      RoundDiv((-lookDistance) * Sin(ph) * Sin(th), 1000)>>

\* updateCameraRotation(): the point (x, y, z) handed to camera.lookAt, in
\* thousandths
updateCameraRotation(th, ph) ==
    <<RoundDiv(lookDistance * Sin(ph) * Sin(th), 1000),
      lookDistance * Cos(ph),
      RoundDiv((-lookDistance) * Sin(ph) * Cos(th), 1000)>>

\* A smoothing step with the sign of the correction reversed
Smoothed_Away(current, target) == current - Damped(target - current)

\* update: one smoothing step of an angle toward its target
Smoothed(current, target) == current + Damped(target - current)

\* update: the field of view moves only while more than 0.1 degrees off
FovAfterUpdate(current, target) ==
    IF Abs(current - target) > RoundDiv(1 * 20, 10)
    THEN current + Damped(target - current)
    ELSE current

\* update: if (!this.enabled) return
UpdateEnabled == enabled

\* update(), called by animate() every frame
Update ==
    /\ Handled("update", 0)
    /\ IF UpdateEnabled
       THEN /\ theta' = Smoothed(theta, targetTheta)
            /\ phi' = Smoothed(phi, targetPhi)
            /\ cameraFov' = FovAfterUpdate(cameraFov, targetFov)
            /\ lookTarget' = updateCameraRotation(theta', phi')
       ELSE UNCHANGED <<theta, phi, cameraFov, lookTarget>>
    /\ UNCHANGED <<enabled, targetTheta, targetPhi, targetFov, cameraPosition,
                   pointerVars, gyroVars, pageVars, dragObs>>

\* ------------------------------------------------------- public methods

\* lookAt(theta, phi, instant = false)
lookAt(th, ph, instant) ==
    /\ targetTheta' = th
    /\ targetPhi' = (IF ph = 0 THEN halfPi ELSE ph)
    /\ IF instant
       THEN /\ theta' = targetTheta' /\ phi' = targetPhi'
            /\ lookTarget' = updateCameraRotation(theta', phi')
       ELSE UNCHANGED <<theta, phi, lookTarget>>
    /\ Disturb
    /\ UNCHANGED <<enabled, targetFov, cameraFov, cameraPosition, pointerVars,
                   gyroVars, pageVars>>

\* The callers (nav buttons, keys 1-4 and Escape, hidePopup) pass no argument
Instants == {FALSE}

\* lookAtFront(instant = false)
LookAtFront(instant) == Handled("lookAtFront", 0) /\ lookAt(0, halfPi, instant)

\* lookAtLeft(instant = false): 60 degrees
LookAtLeft(instant) ==
    Handled("lookAtLeft", 0) /\ lookAt(-RoundDiv(PI, 3), halfPi, instant)

\* lookAtRight(instant = false): 60 degrees
LookAtRight(instant) ==
    Handled("lookAtRight", 0) /\ lookAt(RoundDiv(PI, 3), halfPi, instant)

\* lookAtBack(instant = false)
LookAtBack(instant) == Handled("lookAtBack", 0) /\ lookAt(PI, halfPi, instant)

\* lookAtSkillPopup: thetaOffset for a popup position
thetaOffset(position) ==
    IF position = "top-left" THEN -Rad(35, 100)
    ELSE IF position = "top-right" THEN Rad(35, 100)
    ELSE 0

\* lookAtSkillPopup: phiOffset for a popup position
phiOffset(position) ==
    IF position \in {"top-left", "top-right"} THEN -Rad(15, 100)
    ELSE IF position = "bottom" THEN Rad(15, 100)
    ELSE 0

\* lookAtSkillPopup(position = 'center')
LookAtSkillPopup(position) ==
    /\ Handled("lookAtSkillPopup", 0)
    /\ targetTheta' = -RoundDiv(PI, 3) + thetaOffset(position)
    /\ targetPhi' = ClampPhi(halfPi + phiOffset(position))
    /\ Disturb
    /\ UNCHANGED <<enabled, theta, phi, targetFov, cameraFov, cameraPosition,
                   lookTarget, pointerVars,
                   gyroVars, pageVars>>

\* ------------------------------------------------------- camera: system

\* constructor(camera, domElement), with the camera of createCamera()
CamInit ==
    /\ enabled = FALSE
    /\ theta = 0 /\ phi = halfPi
    /\ targetTheta = 0 /\ targetPhi = halfPi
    /\ isDragging = FALSE
    /\ previousMouse = [x |-> 0, y |-> 0]
    /\ previousTouch = [x |-> 0, y |-> 0]
    /\ isPinching = FALSE
    /\ previousPinchDistance = 0
    /\ targetFov = baseFov
    /\ cameraFov = Deg(60)
    /\ cameraPosition = <<0, 0, 0>>
    /\ lookTarget = updateCameraRotation(theta, phi)
    /\ gyroEnabled = FALSE /\ gyroCalibrated = FALSE
    /\ gyroAlphaOffset = 0 /\ gyroBetaOffset = 0
    /\ isMobile \in BOOLEAN
    /\ orientationApi \in OrientationApis
    /\ permissionsPending = 0
    /\ orientationListeners = 0
    /\ toggleInstalled = FALSE
    /\ buttonHidden = FALSE
    /\ gyroLabel = "Enable tilt"
    /\ gyroFeedback = "none"
    /\ unhandled = FALSE
    /\ gyroAtClick = <<>>
    /\ camOp = "none"
    /\ camArg = 0
    /\ steps = 0
    /\ dragStartX = 0 /\ dragStartTheta = 0 /\ dragOnlyMouse = TRUE

CamNext ==
    \/ EnableControls
    \/ \E deltaY \in WheelDeltas : OnMouseWheel(deltaY)
    \/ \E p \in MousePoints, interactive \in BOOLEAN : OnMouseDown(p, interactive)
    \/ \E p \in MousePoints : OnMouseMove(p)
    \/ OnMouseUp
    \/ \E t \in Touches, hit \in {"none", "atPoint", "target"} : OnTouchStart(t, hit)
    \/ \E t \in Touches : OnTouchMove(t)
    \/ \E remaining \in 0..2 : OnTouchEnd(remaining)
    \/ \E key \in Keys : OnKeyDown(key)
    \/ GyroButtonClick
    \/ \E outcome \in Outcomes : PermissionSettles(outcome)
    \/ \E r \in Readings : HandleOrientation(r[1], r[2])
    \/ Update
    \/ \E instant \in Instants : LookAtFront(instant)
    \/ \E instant \in Instants : LookAtLeft(instant)
    \/ \E instant \in Instants : LookAtRight(instant)
    \/ \E instant \in Instants : LookAtBack(instant)
    \/ \E position \in Positions : LookAtSkillPopup(position)

\* ================================================================== page

\* One more event of the page outside the scene is handled
PageHandled(name) ==
    /\ steps < MaxSteps
    /\ steps' = steps + 1
    /\ camOp' = name
    /\ camArg' = 0
    /\ UNCHANGED popupVars

\* initPortfolio(), run once on DOMContentLoaded (or at once when the
\* document is already loaded)
InitPortfolio ==
    /\ PageHandled("initPortfolio")
    /\ ~pageLoaded
    /\ pageLoaded' = TRUE
    /\ IF ~webglSupported
       THEN bodyFallback' = TRUE /\ UNCHANGED sceneCreated
       ELSE sceneCreated' = TRUE /\ UNCHANGED bodyFallback
    /\ UNCHANGED <<webglSupported, navActive, terminalFeedback, rigVars,
                   pointerVars, gyroVars, pageVars, dragObs>>

\* data-direction of the nav buttons
Directions == {"front", "left", "right", "back"}

\* controls.lookAtFront() / lookAtLeft() / lookAtRight() / lookAtBack()
lookToward(direction) ==
    IF direction = "front" THEN lookAt(0, halfPi, FALSE)
    ELSE IF direction = "left" THEN lookAt(-RoundDiv(PI, 3), halfPi, FALSE)
    ELSE IF direction = "right" THEN lookAt(RoundDiv(PI, 3), halfPi, FALSE)
    ELSE lookAt(PI, halfPi, FALSE)

\* A handler that reads controls without a check
ControlsAvailable_Assumed == TRUE

\* initNavHUD: if (window.portfolioScene && window.portfolioScene.controls);
\* keydown: const controls = window.portfolioScene?.controls; if (controls)
ControlsAvailable == sceneCreated

\* Reading .controls of an undefined window.portfolioScene throws a TypeError
\* that nothing catches
ThrowsTypeError ==
    /\ unhandled' = TRUE
    /\ UNCHANGED <<rigVars, pointerVars, gyroVars, dragObs, isMobile,
                   orientationApi, permissionsPending, orientationListeners,
                   toggleInstalled, buttonHidden, gyroLabel, gyroFeedback,
                   gyroAtClick>>

\* The camera call of a nav button or key, behind its check
CallControls(direction, command) ==
    IF ControlsAvailable
    THEN IF sceneCreated
         THEN lookToward(direction) /\ terminalFeedback' = command
         ELSE ThrowsTypeError /\ UNCHANGED terminalFeedback
    ELSE UNCHANGED <<rigVars, pointerVars, gyroVars, pageVars, dragObs,
                     terminalFeedback>>

\* addTerminalFeedback commands of the nav buttons
LookCommand ==
    [front |-> "look --front", left |-> "look --left", right |-> "look --right",
     back |-> "look --back"]

\* initNavHUD: click on a .nav-btn
NavButtonClick(direction) ==
    /\ PageHandled("navClick")
    /\ navActive' = direction
    /\ CallControls(direction, LookCommand[direction])
    /\ UNCHANGED <<webglSupported, pageLoaded, sceneCreated, bodyFallback>>

\* Keys the page's keydown listener is given
NavKeys == {"1", "2", "3", "4", "Escape", "q"}

\* keydown: the panel a key looks at
KeyDirection ==
    [k \in {"1", "2", "3", "4", "Escape"} |->
        IF k = "2" THEN "left" ELSE IF k = "3" THEN "right"
        ELSE IF k = "4" THEN "back" ELSE "front"]

\* keydown: addTerminalFeedback commands of the keys
KeyCommand ==
    [k \in {"1", "2", "3", "4", "Escape"} |->
        IF k = "1" THEN "goto panel[0]" ELSE IF k = "2" THEN "goto panel[1]"
        ELSE IF k = "3" THEN "goto panel[2]"
        ELSE IF k = "4" THEN "goto panel[3]" ELSE "reset"]

\* document keydown listener of script.js; typing: the target is an INPUT or
\* TEXTAREA
NavKeyDown(key, typing) ==
    /\ PageHandled("navKey")
    /\ IF typing \/ key \notin DOMAIN KeyDirection
       THEN UNCHANGED <<rigVars, pointerVars, gyroVars, pageVars, dragObs,
                        terminalFeedback, navActive>>
       ELSE /\ CallControls(KeyDirection[key], KeyCommand[key])
            /\ navActive' = (IF ControlsAvailable THEN KeyDirection[key]
                                                  ELSE navActive)
    /\ UNCHANGED <<webglSupported, pageLoaded, sceneCreated, bodyFallback>>

\* The document before DOMContentLoaded: initNavHUD marks the front button
DocStart ==
    /\ webglSupported \in BOOLEAN
    /\ pageLoaded = FALSE
    /\ sceneCreated = FALSE
    /\ bodyFallback = FALSE
    /\ navActive = "front"
    /\ terminalFeedback = "none"

\* The document once initPortfolio has created the scene
DocInit ==
    /\ webglSupported = TRUE
    /\ pageLoaded = TRUE
    /\ sceneCreated = TRUE
    /\ bodyFallback = FALSE
    /\ navActive = "front"
    /\ terminalFeedback = "none"

PageNext ==
    \/ InitPortfolio
    \/ \E direction \in Directions : NavButtonClick(direction)
    \/ \E key \in NavKeys, typing \in BOOLEAN : NavKeyDown(key, typing)

\* ================================================================ system
vars == <<popupVars, camVars>>

Init == PopupInit /\ CamInit /\ DocInit

\* The page from before initPortfolio has run
PageInit == PopupInit /\ CamInit /\ DocStart

Next == PopupNext \/ CamNext \/ PageNext

Spec == Init /\ [][Next]_vars

\* The popup on its own
PopupSpec == Init /\ [][PopupNext]_vars

\* The camera controls on their own
CamSpec == Init /\ [][CamNext]_vars

\* The page alone, from before initPortfolio
PageSpec == PageInit /\ [][PageNext]_vars

\* The event loop runs every timer callback whose delay has elapsed.
PopupFairSpec == PopupSpec /\ WF_vars(TimerFire)


\* ------------------------------------------------------------ popup claims

\* C1: after open() followed by close(), with no further call, the state
\* eventually becomes CLOSED and the element then carries none of the classes
\* 'active', 'fading', 'interactive'.
C1_OpenThenCloseReturnsToClosed ==
    \A n \in 0..MaxCalls :
        (ncalls = n /\ calls = <<"open", "close">>)
            ~> (ncalls # n \/ (state = CLOSED /\ classes \cap PopupClasses = {}))

\* C1 witness: the close timer has fired after open(); close().
C1_Witness ==
    /\ calls = <<"open", "close">>
    /\ popupOp = "closeTimer"
    /\ state = CLOSED

\* C2: the element has class 'interactive' iff the state is OPEN, i.e.
\* isInteractive() is true iff the class is present.
C2_InteractiveIffOpen ==
    /\ ("interactive" \in classes) <=> (state = OPEN)
    /\ isInteractive <=> ("interactive" \in classes)

\* C2 witness: close() has just taken an OPEN popup to CLOSING.
C2_Witness ==
    /\ popupOp = "close"
    /\ Len(log) = 1
    /\ log[1].arg = CLOSING
    /\ log[1].old = OPEN

\* C3: 'active' is present iff the state is not CLOSED, 'fading' iff the state
\* is CLOSING, and isVisible() is true iff the state is OPENING or OPEN (the
\* element is then shown and not fading).
C3_VisibilityClasses ==
    /\ ("active" \in classes) <=> (state # CLOSED)
    /\ ("fading" \in classes) <=> (state = CLOSING)
    /\ isVisible <=> (state \in {OPENING, OPEN})
    /\ isVisible <=> ("active" \in classes /\ "fading" \notin classes)

\* C3 witness: open() has just restarted a popup that was CLOSING.
C3_Witness ==
    /\ popupOp = "open"
    /\ Len(log) = 2
    /\ log[2].arg = OPENING
    /\ log[2].old = CLOSING

\* The transition table of C4: <<from, to, operation>>
AllowedTransitions ==
    {<<CLOSED, OPENING, "open">>, <<CLOSING, OPENING, "open">>,
     <<OPENING, OPEN, "openTimer">>,
     <<OPENING, CLOSING, "close">>, <<OPEN, CLOSING, "close">>,
     <<CLOSING, CLOSED, "closeTimer">>}
    \cup {<<s, CLOSED, "forceClose">> : s \in STATES}

\* C4: the state is always one of the four states and every change of state
\* is one of the table's transitions, made by the operation the table names.
C4_TransitionTable ==
    /\ state \in STATES
    /\ [][/\ state' \in STATES
          /\ state' # state => <<state, state', popupOp'>> \in AllowedTransitions]_vars

\* C4 witness: forceClose() right after open() has closed the popup.
C4_Witness ==
    /\ calls = <<"open", "forceClose">>
    /\ popupOp = "forceClose"
    /\ state = CLOSED

\* C5: whenever the state is OPENING or CLOSING and no further call is made,
\* the state eventually becomes OPEN or CLOSED.
C5_TransitionalStatesEnd ==
    \A n \in 0..MaxCalls :
        (ncalls = n /\ state \in {OPENING, CLOSING})
            ~> (ncalls # n \/ state \in {OPEN, CLOSED})


\* ----------------------------------------------------------- camera claims

\* A step of the named handler (every handled event advances steps)
StepOf(name) == steps' # steps /\ camOp' = name

\* Every handled mousemove of a drag moves the targets by the pointer's travel
MouseMoveExact ==
    (StepOf("mousemove") /\ enabled /\ isDragging) =>
        /\ targetTheta' = targetTheta
                            - rotationSpeed * (previousMouse'.x - previousMouse.x)
        /\ targetPhi' = ClampPhi(targetPhi
                            - rotationSpeed * (previousMouse'.y - previousMouse.y))

\* At the mouseup that ends a drag, targetTheta has changed by the travel from
\* the mousedown to the last pointer position
DragTotalAtMouseUp ==
    targetTheta' = dragStartTheta - rotationSpeed * (previousMouse'.x - dragStartX)

Between(old, new, target) ==
    (old <= new /\ new <= target) \/ (target <= new /\ new <= old)

GatedHandlers ==
    {"mousedown", "mousemove", "wheel", "touchstart", "touchmove", "keydown",
     "orientation"}

\* C8: while enabled is false, the input handlers leave targetTheta, targetPhi,
\* targetFov, isDragging and isPinching unchanged, and update() leaves theta,
\* phi and camera.fov unchanged.
C8_DisabledHandlersChangeNothing ==
    [][/\ (~enabled /\ steps' # steps /\ camOp' \in GatedHandlers) =>
              UNCHANGED <<targetTheta, targetPhi, targetFov, isDragging, isPinching>>
       /\ (~enabled /\ StepOf("update")) => UNCHANGED <<theta, phi, cameraFov>>]_vars

\* C8 witness: an orientation event arrived with the gyroscope on while the
\* controls were still disabled.
C8_Witness ==
    /\ ~enabled
    /\ gyroEnabled
    /\ camOp = "orientation"

\* C9: targetPhi and the smoothed phi stay within [minPhi, maxPhi], which is
\* [pi/6, 5*pi/6].
C9_PhiWithinLimits ==
    /\ minPhi = RoundDiv(PI, 6) /\ maxPhi = RoundDiv(5 * PI, 6)
    /\ minPhi <= targetPhi /\ targetPhi <= maxPhi
    /\ minPhi <= phi /\ phi <= maxPhi

\* C9 witness: the target was clamped at minPhi (looking up) and update()
\* has moved phi toward it.
C9_Witness ==
    /\ targetPhi = minPhi
    /\ camOp = "update"
    /\ phi < halfPi

\* C10: targetFov and camera.fov stay within [minFov, maxFov] = [30, 90];
\* scrolling up or pinching out never increases targetFov, scrolling down or
\* pinching in never decreases it.
C10_ZoomWithinLimits ==
    /\ [](/\ minFov = Deg(30) /\ maxFov = Deg(90)
          /\ minFov <= targetFov /\ targetFov <= maxFov
          /\ minFov <= cameraFov /\ cameraFov <= maxFov)
    /\ [][/\ (StepOf("wheel") /\ camArg' < 0) => targetFov' <= targetFov
          /\ (StepOf("wheel") /\ camArg' > 0) => targetFov' >= targetFov
          /\ (StepOf("touchmove") /\ previousPinchDistance' > previousPinchDistance)
                => targetFov' <= targetFov
          /\ (StepOf("touchmove") /\ previousPinchDistance' < previousPinchDistance)
                => targetFov' >= targetFov]_vars

\* C10 witness: a pinch out has zoomed in to the limit and update() has moved
\* the camera's field of view toward it.
C10_Witness ==
    /\ camOp = "update"
    /\ targetFov = minFov
    /\ isPinching
    /\ cameraFov < baseFov

\* ---------------------------------------------------------------------
\* C11: the gyroscope is switched on only through enableGyroscope, which
\* runs only when a permission request is answered 'granted' or when the
\* browser has DeviceOrientationEvent without a permission API (afterwards
\* the installed toggle may switch it too).  A denied or rejected request
\* and a browser without the API leave gyroEnabled and the registered
\* deviceorientation listeners as they were, show 'Permission denied',
\* 'Error' or 'Not supported', and no exception escapes; until
\* enableGyroscope has run gyroEnabled is false and no listener exists.
EnabledByAnswer ==
    \/ StepOf("permission") /\ camArg' = "granted"
    \/ StepOf("gyroClick") /\ orientationApi = "plain"

NavStep == StepOf("navClick") \/ StepOf("navKey")

C12_FallbackWithoutWebGL ==
    /\ []((pageLoaded /\ ~webglSupported) => bodyFallback /\ ~sceneCreated)
    /\ []((pageLoaded /\ webglSupported) => sceneCreated /\ ~bodyFallback)
    /\ [][(~webglSupported /\ NavStep) =>
              /\ UNCHANGED <<rigVars, pointerVars, gyroVars, pageVars, dragObs,
                             terminalFeedback>>
              /\ ~unhandled']_vars

\* In the fallback page the 'back' button was clicked and nothing moved
C12_Witness ==
    /\ pageLoaded /\ ~webglSupported /\ bodyFallback /\ ~sceneCreated
    /\ camOp = "navClick" /\ navActive = "back"
    /\ targetTheta = 0 /\ ~unhandled

\* ---------------------------------------------------------------------
\* C13: the camera stays at the origin: no handler, look method or update()
\* changes camera.position; and the point passed to camera.lookAt is always
\* (100 sin(phi) sin(theta), 100 cos(phi), -100 sin(phi) cos(theta)) of the
\* current theta and phi.
C13_CameraStaysAtOrigin ==
    /\ [](cameraPosition = <<0, 0, 0>>)
    /\ [](/\ lookTarget[1] = RoundDiv(100 * Sin(phi) * Sin(theta), 1000)
          /\ lookTarget[2] = 100 * Cos(phi)
          /\ lookTarget[3] = -RoundDiv(100 * Sin(phi) * Cos(theta), 1000))
    /\ [][cameraPosition' = cameraPosition]_vars

\* A frame turned the camera away from the front: the look-at point has left
\* the -z axis while the camera is still at the origin
C13_Witness ==
    /\ camOp = "update" /\ theta # 0 /\ phi # halfPi
    /\ lookTarget[1] # 0 /\ lookTarget[2] # 0
    /\ cameraPosition = <<0, 0, 0>>

\* ---------------------------------------------------------------------
\* C14: in every reachable state pendingTransition is non-null exactly when
\* the state is OPENING or CLOSING, and at most one scheduled transition
\* callback can still fire.
C14_PendingIffTransitional ==
    /\ (pendingTransition # NULL) <=> (state \in {OPENING, CLOSING})
    /\ Cardinality(timers) <= 1

\* The part of C14 about the timers alone: at most one callback is scheduled,
\* and it is the one pendingTransition names
C14_AtMostOneTimer ==
    /\ Cardinality(timers) <= 1
    /\ \A t \in timers : t.id = pendingTransition

\* A call of the named operation on the manager
CallOf(name) == ncalls' # ncalls /\ popupOp' = name

\* A scheduled callback runs
TimerStep == ncalls' = ncalls /\ timers' # timers

\* ---------------------------------------------------------------------
\* C15: open() while CLOSING removes 'fading' and moves to OPENING, and with
\* no further call the popup later becomes OPEN; the cancelled close timer
\* never takes effect: while open() is the last call the state is OPENING or
\* OPEN, never CLOSED.  Symmetrically, close() while OPENING moves to
\* CLOSING, and while close() is the last call the popup is never OPENING or
\* OPEN.  A callback that runs is always the one scheduled by the last call.
C15_CancelledTimersNeverAct ==
    /\ [](calls[2] = "open" => state \in {OPENING, OPEN})
    /\ [](calls[2] = "close" => state \in {CLOSING, CLOSED})
    /\ [][/\ (CallOf("open") /\ state = CLOSING) =>
                state' = OPENING /\ "fading" \notin classes'
          /\ (CallOf("close") /\ state = OPENING) =>
                state' = CLOSING /\ "interactive" \notin classes'
          /\ TimerStep => \A t \in timers \ timers' : t.id = pendingTransition
          /\ (TimerStep /\ state' = CLOSED) => calls[2] = "close"
          /\ (TimerStep /\ state' = OPEN) => calls[2] = "open"]_vars
    /\ \A n \in 0..MaxCalls :
          (ncalls = n /\ calls[2] = "open") ~> (ncalls # n \/ state = OPEN)

\* open() has just interrupted a fade-out: the only callback left is its own
C15_Witness ==
    /\ popupOp = "open" /\ Len(log) = 2 /\ log[2].old = CLOSING
    /\ state = OPENING /\ "fading" \notin classes
    /\ timers = {[id |-> pendingTransition, kind |-> "open"]}

\* ---------------------------------------------------------------------
\* C16: open() on a popup that is already OPEN only repositions it:
\* onPositionNeeded(position) is invoked once, onStateChange is not invoked,
\* and state, classes and pendingTransition are unchanged.  close() on a
\* CLOSED popup changes nothing and invokes no callback.
C16_IdempotentCalls ==
    [][/\ (CallOf("open") /\ state = OPEN) =>
             /\ Len(log') = 1
             /\ log'[1].cb = "onPositionNeeded"
             /\ log'[1].arg = popupPosition'
             /\ UNCHANGED <<state, classes, pendingTransition, timers>>
       /\ (CallOf("close") /\ state = CLOSED) =>
             /\ log' = <<>>
             /\ UNCHANGED <<state, classes, pendingTransition, timers,
                            popupPosition>>]_vars

\* open("bottom") has just been called on a popup that was fully OPEN
C16_Witness ==
    /\ popupOp = "open" /\ state = OPEN /\ pendingTransition = NULL
    /\ Len(log) = 1 /\ log[1].cb = "onPositionNeeded"
    /\ log[1].arg = "bottom" /\ log[1].shown

\* ---------------------------------------------------------------------
\* C17: on every open() of a CLOSED popup, onPositionNeeded(position) is
\* invoked first, while the element does not yet carry 'active', and
\* onStateChange reports OPENING only after it, once 'active' is set.
C17_PositionedBeforeShown ==
    [][(CallOf("open") /\ state = CLOSED) =>
          /\ Len(log') = 2
          /\ log'[1].cb = "onPositionNeeded"
          /\ log'[1].arg = popupPosition'
          /\ ~log'[1].shown
          /\ log'[2].cb = "onStateChange"
          /\ log'[2].arg = OPENING
          /\ log'[2].shown
          /\ "active" \in classes']_vars

\* open("top-left") has just been called on a CLOSED popup
C17_Witness ==
    /\ popupOp = "open" /\ Len(log) = 2
    /\ log[1].cb = "onPositionNeeded" /\ log[1].arg = "top-left"
    /\ ~log[1].shown
    /\ log[2].old = CLOSED /\ state = OPENING

\* ---------------------------------------------------------------------
\* C18: forceClose() from any state leaves the state CLOSED, pendingTransition
\* null and the element without 'active', 'fading' and 'interactive', and
\* invokes onStateChange(CLOSED, null); no callback scheduled before it is
\* left to run, so the state stays CLOSED until the next call.
C18_ForceCloseIsImmediate ==
    /\ [](calls[2] = "forceClose" => state = CLOSED /\ timers = {})
    /\ [][CallOf("forceClose") =>
             /\ state' = CLOSED
             /\ pendingTransition' = NULL
             /\ classes' \cap PopupClasses = {}
             /\ Len(log') = 1
             /\ log'[1].cb = "onStateChange"
             /\ log'[1].arg = CLOSED
             /\ log'[1].old = "null"
             /\ timers' = {}]_vars

\* forceClose() has just ended a fade-out or a closed popup after close()
C18_Witness ==
    /\ calls = <<"close", "forceClose">> /\ popupOp = "forceClose"
    /\ state = CLOSED /\ classes = {} /\ pendingTransition = NULL
    /\ timers = {} /\ nextTimerId = 3

\* The onStateChange invocations of the step being taken
Notifications == {i \in 1..Len(log') : log'[i].cb = "onStateChange"}

\* ---------------------------------------------------------------------
\* C19: onStateChange(newState, oldState) is invoked exactly when the state
\* changes, with newState the state after the change, oldState the state
\* immediately before it, and newState different from oldState.
C19_NotificationsAccurate ==
    [][/\ (state' # state) <=> (Notifications # {})
       /\ \A i \in Notifications :
             /\ log'[i].arg = state'
             /\ log'[i].old = state
             /\ log'[i].arg # log'[i].old]_vars

\* The part of C19 that holds of open(), close() and the timer callbacks:
\* newState is the state after the step, every change of state is reported
\* once, and oldState is the state before the step
C19_ChangesAreReported ==
    [][/\ (state' # state) => Cardinality(Notifications) = 1
       /\ \A i \in Notifications : log'[i].arg = state'
       /\ \A i \in Notifications :
             popupOp' # "forceClose" => log'[i].old = state]_vars

\* ---------------------------------------------------------------------
\* C20: once enableGyroscope() has run, every later click on the gyro
\* button, when all its click listeners and every pending permission request
\* have completed, leaves gyroEnabled negated relative to its value before
\* the click, and the button label 'Tilt ON' / 'Tilt OFF' matches gyroEnabled.
C20_ClickToggles ==
    (gyroAtClick # <<>> /\ permissionsPending = 0) =>
        /\ gyroEnabled = ~gyroAtClick[1]
        /\ gyroLabel = (IF gyroEnabled THEN "Tilt ON" ELSE "Tilt OFF")

\* The part of C20 about the label: once enableGyroscope() has run the label
\* says 'Tilt ON' exactly when gyroEnabled is true
C20_LabelMatches ==
    toggleInstalled => gyroLabel = (IF gyroEnabled THEN "Tilt ON" ELSE "Tilt OFF")

\* ---------------------------------------------------------------------
\* C21: the deviceorientation listener is registered at most once per
\* CameraControls instance, for any number of gyro-button clicks, including
\* clicks made while an earlier permission request is still pending.
C21_ListenerRegisteredOnce == orientationListeners <= 1

\* ---------------------------------------------------------------------
\* C22: single-touch drag is active only while the gyroscope is off, and
\* pinch zoom does not depend on it: with gyroEnabled true a touchmove with
\* one touch leaves targetTheta and targetPhi unchanged; a two-finger
\* touchmove during a pinch (controls enabled) sets targetFov to
\* targetFov - (distance - previous distance) * 0.05 degrees clamped to
\* [minFov, maxFov], whether gyroEnabled is true or false, and never changes
\* targetTheta or targetPhi.
C22_TouchDragOnlyWithoutGyro ==
    [][StepOf("touchmove") =>
          /\ (gyroEnabled /\ Len(camArg') = 1) =>
                UNCHANGED <<targetTheta, targetPhi>>
          /\ (enabled /\ isPinching /\ Len(camArg') = 2) =>
                /\ targetFov' =
                      Max(minFov, Min(maxFov,
                          targetFov - (getPinchDistance(camArg')
                                       - previousPinchDistance)))
                /\ UNCHANGED <<targetTheta, targetPhi>>
          /\ Len(camArg') = 2 => UNCHANGED <<targetTheta, targetPhi>>]_vars

\* With tilt switched on, a pinch has just zoomed in
C22_Witness ==
    /\ camOp = "touchmove" /\ Len(camArg) = 2
    /\ gyroEnabled /\ isPinching /\ enabled
    /\ targetFov < baseFov

\* An orientation event that handleOrientation acts on: controls and tilt are
\* on and the reading has both alpha and beta
OrientationHandled ==
    /\ StepOf("orientation")
    /\ enabled /\ gyroEnabled
    /\ camArg'[1] # <<>> /\ camArg'[2] # <<>>

CompassDistance(a, b) ==
    LET d == (a - b) % 360 IN Min(d, 360 - d)

\* The step before was a handled orientation event too (enabled and
\* gyroEnabled are not changed by orientation events)
PreviousHandled ==
    /\ camOp = "orientation"
    /\ camArg[1] # <<>> /\ camArg[2] # <<>>
    /\ enabled /\ gyroEnabled

\* ---------------------------------------------------------------------
\* C24: gyroscope yaw is continuous in the compass heading: for two
\* consecutive handled orientation events whose headings are d degrees apart
\* on the compass circle, targetTheta changes by at most d in radians (one
\* thousandth of a radian is allowed for rounding), also when alpha wraps
\* from 359 to 0.
C24_YawContinuousAcrossWrap ==
    [][(PreviousHandled /\ OrientationHandled) =>
          Abs(targetTheta' - targetTheta)
              <= RoundDiv(CompassDistance(camArg[1][1], camArg'[1][1]) * PI, 180)
                 + 1]_vars

====
